---- MODULE Spec2Model ----
(***************************************************************************)
(* PattyAnalytics: the registration command (scripts/registration.py) with *)
(* its registration_pipeline, and the red stick detection command          *)
(* (scripts/redStickDetection.py) with getReds                             *)
(* (patty/segmentation/segRedStick.py).                                    *)
(*                                                                         *)
(* Numbers.  Coordinates are integers.  A scale factor f of the source is  *)
(* written as the integer f * FactorDen (1.05 is 21, 1.5 is 30), a         *)
(* confidence c as c * ConfDen (0.5 is 5), a hue or saturation as an exact *)
(* fraction num/den.  Floating-point rounding is not modelled.             *)
(***************************************************************************)
EXTENDS Integers, Sequences, FiniteSets, TLC

\* ------------------------------------------------------------------------
\* Bounds of the model
\* ------------------------------------------------------------------------

\* Largest value given to -d <sample> (the default -1 is always included).
MaxSample == 1

\* Largest number of points of the source cloud.
MaxSourcePts == 2

\* Largest number of points in the input of redStickDetection.
MaxRedPts == 2

\* Largest number of points of the cloud given to find_largest_cluster.
MaxClusterPts == 4

\* Largest sample target given to find_largest_cluster.
MaxClusterSample == 5

\* ------------------------------------------------------------------------
\* Vectors, point clouds
\* ------------------------------------------------------------------------

Zero3 == <<0, 0, 0>>

VAdd(a, b) == <<a[1] + b[1], a[2] + b[2], a[3] + b[3]>>

VSub(a, b) == <<a[1] - b[1], a[2] - b[2], a[3] - b[3]>>

VMul(k, a) == <<k * a[1], k * a[2], k * a[3]>>

\* Matrix (three rows) times vector.
MatVec(m, a) ==
  << m[1][1] * a[1] + m[1][2] * a[2] + m[1][3] * a[3],
     m[2][1] * a[1] + m[2][2] * a[2] + m[2][3] * a[3],
     m[3][1] * a[1] + m[3][2] * a[2] + m[3][3] * a[3] >>

Identity3 == << <<1, 0, 0>>, <<0, 1, 0>>, <<0, 0, 1>> >>

\* A quarter turn about the Z axis.
RotZ90 == << <<0, -1, 0>>, <<1, 0, 0>>, <<0, 0, 1>> >>

SetMin(S) == CHOOSE m \in S : \A x \in S : m <= x

SetMax(S) == CHOOSE m \in S : \A x \in S : m >= x

\* The subsequence of s at the positions where keep is true, in order.
RECURSIVE SelectIdx(_, _, _)
SelectIdx(s, keep, k) ==
  IF k > Len(s) THEN << >>
  ELSE (IF keep[k] THEN <<s[k]>> ELSE << >>) \o SelectIdx(s, keep, k + 1)

\* Every subsequence (order kept) of the sequence pool, the empty one too.
RECURSIVE SubSeqs(_)
SubSeqs(pool) ==
  IF pool = << >> THEN { << >> }
  ELSE LET rest == SubSeqs(Tail(pool))
       IN  rest \cup { <<Head(pool)>> \o r : r \in rest }

\* patty.conversions.extract_mask: the sub-cloud of the points whose mask
\* entry is true, with the registration (offset) of the input.
extract_mask(cloud, mask) ==
  [pts |-> SelectIdx(cloud.pts, mask, 1), offset |-> cloud.offset]

\* patty.conversions.BoundingBox(points=...): min, max and size per axis.
BoundingBox(pts) ==
  LET lo == [a \in 1..3 |-> SetMin({pts[k][a] : k \in DOMAIN pts})]
      hi == [a \in 1..3 |-> SetMax({pts[k][a] : k \in DOMAIN pts})]
  IN  [min |-> lo, max |-> hi, size |-> [a \in 1..3 |-> hi[a] - lo[a]]]

\* ------------------------------------------------------------------------
\* Polygons (patty.registration: scale_points, point_in_polygon2d)
\* ------------------------------------------------------------------------

\* Denominator of the scale factors: factor f is the integer f * FactorDen.
FactorDen == 20

PolySum(poly, a) ==
  LET RECURSIVE S(_)
      S(k) == IF k = 0 THEN 0 ELSE poly[k][a] + S(k - 1)
  IN  S(Len(poly))

\* How many times finer the grid of a scaled polygon is than the input's.
Grid(poly) == FactorDen * Len(poly)

\* scale_points(polygon, num / FactorDen): every vertex v is moved to
\* c + f * (v - c), c the mean of the vertices.  The result is on the grid
\* Grid(poly) times finer: vertex * Grid = FactorDen * S + num * (n * v - S),
\* S the sum of the vertices and n their number.
scale_points(poly, num) ==
  LET n == Len(poly)
      sx == PolySum(poly, 1)
      sy == PolySum(poly, 2)
  IN  [k \in 1..n |->
        << FactorDen * sx + num * (n * poly[k][1] - sx),
           FactorDen * sy + num * (n * poly[k][2] - sy) >>]

\* The point p lies on the segment from a to b.
OnSegment(p, a, b) ==
  /\ (b[1] - a[1]) * (p[2] - a[2]) = (b[2] - a[2]) * (p[1] - a[1])
  /\ p[1] >= (IF a[1] < b[1] THEN a[1] ELSE b[1])
  /\ p[1] <= (IF a[1] < b[1] THEN b[1] ELSE a[1])
  /\ p[2] >= (IF a[2] < b[2] THEN a[2] ELSE b[2])
  /\ p[2] <= (IF a[2] < b[2] THEN b[2] ELSE a[2])

\* The edge from a to b crosses the ray from p towards +X.
Crosses(p, a, b) ==
  /\ (a[2] > p[2]) # (b[2] > p[2])
  /\ IF b[2] > a[2]
     THEN (p[1] - a[1]) * (b[2] - a[2]) < (b[1] - a[1]) * (p[2] - a[2])
     ELSE (p[1] - a[1]) * (b[2] - a[2]) > (b[1] - a[1]) * (p[2] - a[2])

\* One point against a polygon on the same grid: ray casting over the X,Y
\* projection (Z ignored); the polygon is closed implicitly; a point on the
\* boundary is outside (tests/test_registration.py: the vertex [0, 0] of the
\* fixture polygon is not in it).
InPolygon(p, poly) ==
  LET n == Len(poly)
      nxt(k) == IF k = n THEN 1 ELSE k + 1
  IN  /\ \A k \in 1..n : ~OnSegment(p, poly[k], poly[nxt(k)])
      /\ Cardinality({k \in 1..n : Crosses(p, poly[k], poly[nxt(k)])}) % 2 = 1

\* point_in_polygon2d(points, polygon): the mask, one entry per point.
\* grid: how many times finer the polygon's grid is than the points'.
point_in_polygon2d(pts, poly, grid) ==
  [k \in DOMAIN pts |-> InPolygon(<<grid * pts[k][1], grid * pts[k][2]>>, poly)]

\* ------------------------------------------------------------------------
\* Rigid operations on a cloud (the cloud methods rotate, scale, translate)
\* ------------------------------------------------------------------------

\* pointcloud.rotate(rot_matrix, origin=c): p -> c + R (p - c).
Rotate(cloud, R, c) ==
  [pts |-> [k \in DOMAIN cloud.pts |-> VAdd(c, MatVec(R, VSub(cloud.pts[k], c)))],
   offset |-> cloud.offset]

\* pointcloud.scale(s, origin=c): p -> c + s (p - c); without an origin the
\* scaling is about the zero point of the stored coordinates.
Scale(cloud, s, c) ==
  [pts |-> [k \in DOMAIN cloud.pts |-> VAdd(c, VMul(s, VSub(cloud.pts[k], c)))],
   offset |-> cloud.offset]

\* pointcloud.translate(t): p -> p + t.
Translate(cloud, t) ==
  [pts |-> [k \in DOMAIN cloud.pts |-> VAdd(cloud.pts[k], t)],
   offset |-> cloud.offset]

\* copy_registration(target, src): target gets src's registration; the
\* stored points of target are not touched.
copy_registration(target, src) ==
  [pts |-> target.pts, offset |-> src.offset]

\* ------------------------------------------------------------------------
\* Inputs
\* ------------------------------------------------------------------------

\* The concave fixture polygon of tests/test_registration.py (times 100),
\* and a square.
Fixture == << <<0, 0>>, <<100, 0>>, <<40, 40>>, <<100, 100>>, <<0, 100>> >>

Square == << <<0, 0>>, <<100, 0>>, <<100, 100>>, <<0, 100>> >>

Footprints == {Fixture, Square}

\* Absolute positions the drivemap's points are drawn from: inside the
\* footprint; between the footprint and the footprint scaled by 1.05; in the
\* band up to 1.5, low and higher up; outside 1.5 for the fixture (in its
\* notch) and in the band for the square.
DrivemapPool ==
  << <<20, 50, 0>>, <<-1, 50, 1>>, <<-10, 50, 0>>, <<-12, 50, 3>>,
     <<110, 10, 0>> >>

DrivemapOffsets == {Zero3, <<100, 0, 0>>}

\* A drivemap file: a non-empty choice of pool points, stored relative to
\* the cloud's offset.
Drivemaps ==
  { [pts |-> [k \in DOMAIN sub |-> VSub(sub[k], off)], offset |-> off] :
      sub \in SubSeqs(DrivemapPool) \ { << >> }, off \in DrivemapOffsets }

\* A source file of n points; its own registration is arbitrary.
SourceCloud(n) ==
  [pts |-> [k \in 1..n |-> <<2 * k, k * k, k % 2>>], offset |-> <<7, 0, 0>>]

Sources == { SourceCloud(n) : n \in 1..MaxSourcePts }

\* -d <sample>: the default -1, or a number of points.
Samples == {-1} \cup (1..MaxSample)

NoCloud == [pts |-> << >>, offset |-> Zero3]

FileNames == {"source", "drivemap", "footprint"}

\* ------------------------------------------------------------------------
\* Results of the collaborators
\* ------------------------------------------------------------------------

\* Confidences are in units of 1 / ConfDen.
ConfDen == 10

\* The confidence above which the stick scale is used: 0.5.
ConfThreshold == 5

\* get_stick_scale(pointcloud) -> (scale, confidence), confidence in [0, 1].
StickScales == {2}

Confidences == {0, ConfThreshold, ConfThreshold + 1, ConfDen}

\* register_from_footprint(...) -> (rot_matrix, rot_center, scale,
\* translation); a degree of freedom that is not allowed comes back as the
\* identity (scale 1).
RotMatrices == {Identity3, RotZ90}

RotCenters == { <<1, 0, 0>> }

AlignScales == {1, 2}

Translations == { <<3, -2, 1>> }

Transforms(allow_scaling, allow_rotation, allow_translation) ==
  { [rot |-> R, center |-> c, scale |-> s, translation |-> t] :
      R \in (IF allow_rotation THEN RotMatrices ELSE {Identity3}),
      c \in RotCenters,
      s \in (IF allow_scaling THEN AlignScales ELSE {1}),
      t \in (IF allow_translation THEN Translations ELSE {Zero3}) }

\* icp(source, target) -> (converged, transf, estimate, fitness): estimate
\* is a new cloud, the source moved by transf; the source is not changed.
IcpShifts == {Zero3, <<1, 0, -1>>}

Fitnesses == {0, 7}

\* ------------------------------------------------------------------------
\* State
\* ------------------------------------------------------------------------

VARIABLES
  pc,               \* where the command is
  exists,           \* which input paths exist
  sample,           \* the value of -d
  err,              \* why the run stopped with an error ("" : it did not)
  loaded,           \* the files loaded so far
  pointcloud,       \* the source cloud object of the caller (__main__)
  drivemap_in,      \* the drivemap cloud object of the caller
  footprint,        \* the footprint polygon
  local_pointcloud, \* the object the pipeline's name pointcloud is bound to
  drivemap,         \* the cloud the pipeline's name drivemap is bound to
  trimmed,          \* whether line 102 ran
  footprint_boundary,
  stick,            \* << [scale, confidence] >> once get_stick_scale returned
  allow_scaling,
  transform,        \* << the result of register_from_footprint >>
  icp_result,       \* << [converged, shift, fitness, estimate, target] >>
  reported,         \* what was logged about ICP
  calls,            \* the calls made on or with the source cloud, in order
  output,           \* << the cloud written to the output path >>
  ar,               \* redStickDetection: the input, one row per point
  reds_kind,        \* what getReds is given: "array" (N x 6) or "cloud";
                    \* "none" in a run of registration.py
  redMask,          \* getReds: the mask
  i,                \* getReds: the loop index (from 1)
  red_out,          \* << what redStickDetection wrote to outFile >>
  fraction,         \* find_largest_cluster: << fraction >> once line 44 ran
  downsampled,      \* << the call of downsample_random and its result >>
  pc_cloud,         \* << the cloud find_largest_cluster's name pc is bound to >>
  clustered         \* << the call of get_largest_dbscan_clusters, its result >>

vars ==
  << pc, exists, sample, err, loaded, pointcloud, drivemap_in, footprint,
     local_pointcloud, drivemap, trimmed, footprint_boundary, stick,
     allow_scaling, transform, icp_result, reported, calls, output,
     ar, reds_kind, redMask, i, red_out,
     fraction, downsampled, pc_cloud, clustered >>

reds == << ar, reds_kind, redMask, i, red_out >>

cluster == << fraction, downsampled, pc_cloud, clustered >>

inputs == << exists, sample >>

files == << loaded, pointcloud, drivemap_in, footprint >>

stages ==
  << local_pointcloud, drivemap, trimmed, footprint_boundary, stick,
     allow_scaling, transform, icp_result, reported, calls >>

NoFlags == [scaling |-> FALSE, rotation |-> FALSE, translation |-> FALSE]

\* One entry of calls.
Call(op, rot, k, vec, origin, flags) ==
  [op |-> op, rot |-> rot, k |-> k, vec |-> vec, origin |-> origin,
   flags |-> flags]

Init ==
  /\ pc \in {"assert_source", "reds_load"}
  /\ exists \in (IF pc = "reds_load" THEN {[f \in FileNames |-> TRUE]}
                 ELSE [FileNames -> BOOLEAN])
  /\ sample \in (IF pc = "reds_load" THEN {-1} ELSE Samples)
  /\ err = ""
  /\ loaded = {}
  /\ pointcloud = NoCloud
  /\ drivemap_in = NoCloud
  /\ footprint = << >>
  /\ local_pointcloud = "pointcloud"
  /\ drivemap = NoCloud
  /\ trimmed = FALSE
  /\ footprint_boundary = NoCloud
  /\ stick = << >>
  /\ allow_scaling = TRUE
  /\ transform = << >>
  /\ icp_result = << >>
  /\ reported = << >>
  /\ calls = << >>
  /\ output = << >>
  /\ ar = << >>
  /\ reds_kind \in (IF pc = "reds_load" THEN {"array", "cloud"} ELSE {"none"})
  /\ redMask = << >>
  /\ i = 1
  /\ fraction = << >>
  /\ downsampled = << >>
  /\ pc_cloud = << >>
  /\ clustered = << >>
  /\ red_out = << >>

\* ------------------------------------------------------------------------
\* scripts/registration.py: the functions
\* ------------------------------------------------------------------------

\* 1.05, the factor of slightly_large_polygon, times FactorDen.
SlightlyLarge == 21

\* 1.5, the polygon_width registration_pipeline passes, times FactorDen.
PolygonWidth == 30

\* The height of the slice of the drivemap that is kept when it is trimmed.
TrimHeight == 2

\* cutout_edge with the footprint itself as the inner polygon.
cutout_edge_inner_unscaled(cloud, polygon2d, polygon_width) ==
  LET pc_array == [k \in DOMAIN cloud.pts |-> VAdd(cloud.pts[k], cloud.offset)]
      in_polygon ==
        point_in_polygon2d(pc_array, scale_points(polygon2d, FactorDen),
                           Grid(polygon2d))
      in_large_polygon ==
        point_in_polygon2d(pc_array, scale_points(polygon2d, polygon_width),
                           Grid(polygon2d))
  IN  extract_mask(cloud,
        [k \in DOMAIN cloud.pts |-> in_large_polygon[k] /\ ~in_polygon[k]])

\* cutout_edge(pointcloud, polygon2d, polygon_width): the points whose
\* absolute position is in the polygon scaled by polygon_width and not in
\* the polygon scaled by 1.05.  (The loss of precision the FIXME of line 55
\* speaks of is not modelled.)
cutout_edge(cloud, polygon2d, polygon_width) ==
  LET pc_array == [k \in DOMAIN cloud.pts |-> VAdd(cloud.pts[k], cloud.offset)]
      slightly_large_polygon == scale_points(polygon2d, SlightlyLarge)
      in_polygon ==
        point_in_polygon2d(pc_array, slightly_large_polygon, Grid(polygon2d))
      large_polygon == scale_points(polygon2d, polygon_width)
      in_large_polygon ==
        point_in_polygon2d(pc_array, large_polygon, Grid(polygon2d))
  IN  extract_mask(cloud,
        [k \in DOMAIN cloud.pts |-> in_large_polygon[k] /\ ~in_polygon[k]])

\* Line 101 with "and" for "or".
NeedsTrim_both(bb) == bb.size[3] > bb.size[2] /\ bb.size[3] > bb.size[1]

\* The condition of line 101 on the bounding box of the stored points.
NeedsTrim(bb) == bb.size[3] > bb.size[2] \/ bb.size[3] > bb.size[1]

\* Lines 99-102: the drivemap the rest of the pipeline works with.
TrimDrivemap(dm) ==
  LET bb == BoundingBox(dm.pts)
  IN  IF NeedsTrim(bb)
      THEN extract_mask(dm,
             [k \in DOMAIN dm.pts |-> dm.pts[k][3] < bb.min[3] + TrimHeight])
      ELSE dm

\* Line 112 with >= for >.
UseStickScale_ge(confidence) == confidence >= ConfThreshold

\* The condition of line 112.
UseStickScale(confidence) == confidence > ConfThreshold

\* Lines 130-132 with the translation first.
TransformCalls_translate_first(T) ==
  << Call("translate", Identity3, 1, T.translation, << >>, NoFlags),
     Call("rotate", T.rot, 1, Zero3, <<T.center>>, NoFlags),
     Call("scale", Identity3, T.scale, Zero3, <<T.center>>, NoFlags) >>

\* Lines 130-132: the calls that apply the transform T to the source cloud.
TransformCalls(T) ==
  << Call("rotate", T.rot, 1, Zero3, <<T.center>>, NoFlags),
     Call("scale", Identity3, T.scale, Zero3, <<T.center>>, NoFlags),
     Call("translate", Identity3, 1, T.translation, << >>, NoFlags) >>

\* The effect of one call on a cloud.
ApplyCall(cloud, c) ==
  CASE c.op = "rotate" -> Rotate(cloud, c.rot, c.origin[1])
    [] c.op = "scale" ->
         Scale(cloud, c.k, IF c.origin = << >> THEN Zero3 ELSE c.origin[1])
    [] c.op = "translate" -> Translate(cloud, c.vec)
    [] OTHER -> cloud

RECURSIVE ApplyCalls(_, _)
ApplyCalls(cloud, cs) ==
  IF cs = << >> THEN cloud ELSE ApplyCalls(ApplyCall(cloud, Head(cs)), Tail(cs))

\* ------------------------------------------------------------------------
\* scripts/registration.py: __main__
\* ------------------------------------------------------------------------

Fail(why) ==
  /\ pc' = "error"
  /\ err' = why

\* The asserts not executed.
AssertExists_skipped(at, file, then) ==
  /\ pc = at
  /\ pc' = then
  /\ UNCHANGED << cluster, inputs, err, files, stages, output, reds >>

\* Lines 166-168: one assert per input path.
AssertExists(at, file, then) ==
  /\ pc = at
  /\ IF exists[file]
     THEN pc' = then /\ err' = err
     ELSE Fail(file \o " does not exist")
  /\ UNCHANGED << cluster, inputs, files, stages, output, reds >>

AssertSource == AssertExists("assert_source", "source", "assert_drivemap")

AssertDrivemap == AssertExists("assert_drivemap", "drivemap", "assert_footprint")

AssertFootprint == AssertExists("assert_footprint", "footprint", "load_source")

\* Line 177.
LoadSource ==
  /\ pc = "load_source"
  /\ \E c \in Sources : pointcloud' = c
  /\ loaded' = loaded \cup {"source"}
  /\ pc' = "load_drivemap"
  /\ UNCHANGED << cluster, inputs, err, drivemap_in, footprint, stages, output, reds >>

\* Line 180.
LoadDrivemap ==
  /\ pc = "load_drivemap"
  /\ \E c \in Drivemaps : drivemap_in' = c
  /\ loaded' = loaded \cup {"drivemap"}
  /\ pc' = "load_footprint"
  /\ UNCHANGED << cluster, inputs, err, pointcloud, footprint, stages, output, reds >>

\* Line 183; then line 187 calls registration_pipeline, which binds its
\* names pointcloud and drivemap to the caller's objects.
LoadFootprint ==
  /\ pc = "load_footprint"
  /\ \E f \in Footprints : footprint' = f
  /\ loaded' = loaded \cup {"footprint"}
  /\ pc' = "copy_registration"
  /\ local_pointcloud' = "pointcloud"
  /\ drivemap' = drivemap_in
  /\ UNCHANGED << cluster, inputs, err, pointcloud, drivemap_in, trimmed,
                  footprint_boundary, stick, allow_scaling, transform,
                  icp_result, reported, calls, output, reds >>

\* ------------------------------------------------------------------------
\* registration_pipeline, stage by stage
\* ------------------------------------------------------------------------

\* Line 93: the source cloud gets the drivemap's registration.
CopyRegistration ==
  /\ pc = "copy_registration"
  /\ pointcloud' = copy_registration(pointcloud, drivemap)
  /\ pc' = "trim"
  /\ UNCHANGED << cluster, inputs, err, loaded, drivemap_in, footprint, stages,
                  output, reds >>

\* Lines 99-102: the name drivemap is bound to the trimmed cloud, a new
\* object; the caller's drivemap is not changed.
Trim ==
  /\ pc = "trim"
  /\ drivemap' = TrimDrivemap(drivemap)
  /\ trimmed' = NeedsTrim(BoundingBox(drivemap.pts))
  /\ pc' = "cutout"
  /\ UNCHANGED << cluster, inputs, err, files, local_pointcloud, footprint_boundary,
                  stick, allow_scaling, transform, icp_result, reported,
                  calls, output, reds >>

\* Line 104.
Cutout ==
  /\ pc = "cutout"
  /\ footprint_boundary' = cutout_edge(drivemap, footprint, PolygonWidth)
  /\ pc' = "stick"
  /\ UNCHANGED << cluster, inputs, err, files, local_pointcloud, drivemap, trimmed,
                  stick, allow_scaling, transform, icp_result, reported,
                  calls, output, reds >>

\* Lines 108-118: the stick scale, applied when the confidence allows it.
StickScale ==
  /\ pc = "stick"
  /\ \E s \in StickScales, c \in Confidences :
       /\ stick' = << [scale |-> s, confidence |-> c] >>
       /\ IF UseStickScale(c)
          THEN /\ pointcloud' = Scale(pointcloud, s, Zero3)
               /\ calls' = Append(calls,
                    Call("scale", Identity3, s, Zero3, << >>, NoFlags))
               /\ allow_scaling' = FALSE
          ELSE /\ pointcloud' = pointcloud
               /\ calls' = calls
               /\ allow_scaling' = TRUE
  /\ pc' = "align"
  /\ UNCHANGED << cluster, inputs, err, loaded, drivemap_in, footprint,
                  local_pointcloud, drivemap, trimmed, footprint_boundary,
                  transform, icp_result, reported, output, reds >>

\* Lines 123-127 with an error of register_from_footprint that does not end
\* the run.
Align_failure_ignored ==
  /\ pc = "align"
  /\ calls' = Append(calls,
       Call("register_from_footprint", Identity3, 1, Zero3, << >>,
            [scaling |-> allow_scaling, rotation |-> TRUE,
             translation |-> TRUE]))
  /\ \E T \in Transforms(allow_scaling, TRUE, TRUE) : transform' = << T >>
  /\ pc' = "transform"
  /\ err' = IF footprint_boundary.pts = << >> THEN "empty boundary" ELSE err
  /\ UNCHANGED << cluster, inputs, files, local_pointcloud, drivemap, trimmed,
                  footprint_boundary, stick, allow_scaling, icp_result,
                  reported, output, reds >>

\* Lines 123-127: register_from_footprint; an empty boundary is an error,
\* which ends the run.
Align ==
  /\ pc = "align"
  /\ calls' = Append(calls,
       Call("register_from_footprint", Identity3, 1, Zero3, << >>,
            [scaling |-> allow_scaling, rotation |-> TRUE,
             translation |-> TRUE]))
  /\ IF footprint_boundary.pts = << >>
     THEN Fail("empty boundary") /\ transform' = transform
     ELSE /\ \E T \in Transforms(allow_scaling, TRUE, TRUE) : transform' = << T >>
          /\ pc' = "transform"
          /\ err' = err
  /\ UNCHANGED << cluster, inputs, files, local_pointcloud, drivemap, trimmed,
                  footprint_boundary, stick, allow_scaling, icp_result,
                  reported, output, reds >>

\* Lines 129-132.
ApplyTransform ==
  /\ pc = "transform"
  /\ pointcloud' = ApplyCalls(pointcloud, TransformCalls(transform[1]))
  /\ calls' = calls \o TransformCalls(transform[1])
  /\ pc' = "icp"
  /\ UNCHANGED << cluster, inputs, err, loaded, drivemap_in, footprint,
                  local_pointcloud, drivemap, trimmed, footprint_boundary,
                  stick, allow_scaling, transform, icp_result, reported,
                  output, reds >>

\* What icp(source, target) may return.
IcpResults(source, target) ==
  { [converged |-> converged, shift |-> shift, fitness |-> fitness,
     estimate |-> [pts |-> Translate(source, shift).pts, offset |-> Zero3],
     target |-> target] :
      converged \in BOOLEAN, shift \in IcpShifts, fitness \in Fitnesses }

\* Lines 137-142 with a run that gives up when icp did not converge.
Icp_fatal_nonconvergence ==
  /\ pc = "icp"
  /\ \E r \in IcpResults(pointcloud, drivemap) :
       /\ icp_result' = << r >>
       /\ reported' = << [converged |-> r.converged, fitness |-> r.fitness] >>
       /\ IF r.converged THEN pc' = "adopt" /\ err' = err
                         ELSE Fail("icp did not converge")
  /\ calls' = Append(calls, Call("icp", Identity3, 1, Zero3, << >>, NoFlags))
  /\ UNCHANGED << cluster, inputs, files, local_pointcloud, drivemap, trimmed,
                  footprint_boundary, stick, allow_scaling, transform,
                  output, reds >>

\* Lines 137-142: icp on the source cloud and the drivemap, and the report
\* of converged and fitness; neither is tested.
Icp ==
  /\ pc = "icp"
  /\ \E r \in IcpResults(pointcloud, drivemap) :
       /\ icp_result' = << r >>
       /\ reported' = << [converged |-> r.converged, fitness |-> r.fitness] >>
  /\ calls' = Append(calls, Call("icp", Identity3, 1, Zero3, << >>, NoFlags))
  /\ pc' = "adopt"
  /\ UNCHANGED << cluster, inputs, err, files, local_pointcloud, drivemap, trimmed,
                  footprint_boundary, stick, allow_scaling, transform,
                  output, reds >>

\* Lines 147-148, and the return to __main__: line 147 writes the
\* registration of the source cloud into the estimate, line 148 binds the
\* pipeline's own name pointcloud to the estimate.  The cloud object of the
\* caller is not written.
Adopt ==
  /\ pc = "adopt"
  /\ icp_result' =
       << [icp_result[1] EXCEPT
             !.estimate = copy_registration(icp_result[1].estimate, pointcloud)] >>
  /\ local_pointcloud' = "estimate"
  /\ pc' = "save"
  /\ UNCHANGED << cluster, inputs, err, files, drivemap,
                  trimmed, footprint_boundary, stick, allow_scaling, transform,
                  reported, calls, output, reds >>

\* Line 188: save(pointcloud, foutLas), pointcloud being __main__'s name.
Save ==
  /\ pc = "save"
  /\ output' = << pointcloud >>
  /\ pc' = "done"
  /\ UNCHANGED << cluster, inputs, err, files, stages, reds >>

\* ------------------------------------------------------------------------
\* patty/segmentation/segRedStick.py: getReds
\* ------------------------------------------------------------------------

\* The columns of a point of the array: x, y, z, r, g, b.
Cols == 6

Max3(t) == SetMax({t[1], t[2], t[3]})

Min3(t) == SetMin({t[1], t[2], t[3]})

\* colorsys.rgb_to_hsv(r, g, b), hue and saturation as exact fractions:
\*   maxc = max(r, g, b); minc = min(r, g, b)
\*   if minc == maxc: return 0.0, 0.0, v
\*   s = (maxc - minc) / maxc
\*   rc, gc, bc = (maxc - r, maxc - g, maxc - b) / (maxc - minc)
\*   if r == maxc: h = bc - gc
\*   elif g == maxc: h = 2.0 + rc - bc
\*   else: h = 4.0 + gc - rc
\*   h = (h / 6.0) % 1.0
rgb_to_hsv(rgb) ==
  LET maxc == Max3(rgb)
      minc == Min3(rgb)
      d == maxc - minc
      r == rgb[1]
      g == rgb[2]
      b == rgb[3]
      h == IF r = maxc THEN g - b
           ELSE IF g = maxc THEN 2 * d + (b - r)
           ELSE 4 * d + (r - g)
  IN  IF d = 0
      THEN [h |-> [num |-> 0, den |-> 1], s |-> [num |-> 0, den |-> 1], v |-> maxc]
      ELSE [h |-> [num |-> h % (6 * d), den |-> 6 * d],
            s |-> [num |-> d, den |-> maxc],
            v |-> maxc]

\* Line 10 with "or" for "and".
IsRed_either(rgb) ==
  LET hsv == rgb_to_hsv(rgb)
  IN  \/ 10 * hsv.h.num > 9 * hsv.h.den
      \/ 2 * hsv.s.num > hsv.s.den

\* Line 10: H > 0.9 and S > 0.5.
IsRed(rgb) ==
  LET hsv == rgb_to_hsv(rgb)
  IN  /\ 10 * hsv.h.num > 9 * hsv.h.den
      /\ 2 * hsv.s.num > hsv.s.den

\* pointcloud.size: the number of points of a cloud, the number of elements
\* of an array.
SizeOf(input, kind) == IF kind = "array" THEN Cols * Len(input) ELSE Len(input)

\* Colours: red; hue exactly 0.9; saturation exactly 0.5; pure red (hue 0);
\* grey; blue; a dark red.
Palette ==
  { <<255, 0, 50>>, <<10, 0, 6>>, <<200, 100, 110>>, <<255, 0, 0>>,
    <<128, 128, 128>>, <<0, 0, 255>>, <<20, 9, 10>> }

\* The inputs of getReds: up to MaxRedPts points, point k at <<k, 0, 0>>.
RedInputs ==
  UNION { { [k \in 1..n |-> [pos |-> <<k, 0, 0>>, rgb |-> c[k]]] :
              c \in [1..n -> Palette] } : n \in 0..MaxRedPts }

\* redStickDetection.py line 23 (getInputPoinCloudAsArray), or a caller that
\* has a cloud; then the call of getReds.
RedsLoad ==
  /\ pc = "reds_load"
  /\ \E a \in RedInputs : ar' = a
  /\ pc' = "reds_alloc"
  /\ UNCHANGED << cluster, inputs, err, files, stages, output, reds_kind, redMask, i,
                  red_out >>

\* Line 6: np.empty(pointcloud.size): the entries are not initialised.
GetRedsAlloc ==
  /\ pc = "reds_alloc"
  /\ redMask' = [k \in 1..SizeOf(ar, reds_kind) |-> "uninit"]
  /\ i' = 1
  /\ pc' = "reds_loop"
  /\ UNCHANGED << cluster, inputs, err, files, stages, output, ar, reds_kind, red_out >>

\* The entry line 10 writes for a point.
MaskEntry(point) == IF IsRed(point.rgb) THEN "true" ELSE "false"

\* Lines 7-10: one turn of the loop over range(len(pointcloud)).
GetRedsLoop ==
  /\ pc = "reds_loop"
  /\ i <= Len(ar)
  /\ redMask' = [redMask EXCEPT ![i] = MaskEntry(ar[i])]
  /\ i' = i + 1
  /\ UNCHANGED << pc, cluster, inputs, err, files, stages, output, ar, reds_kind,
                  red_out >>

\* Line 12: the loop is over, the mask is returned.
GetRedsReturn ==
  /\ pc = "reds_loop"
  /\ i > Len(ar)
  /\ pc' = IF reds_kind = "array" THEN "reds_save" ELSE "reds_returned"
  /\ UNCHANGED << cluster, inputs, err, files, stages, output, reds >>

\* ------------------------------------------------------------------------
\* scripts/redStickDetection.py
\* ------------------------------------------------------------------------

\* What line 25 hands to saveArrayAsPointCloud: the mask getReds returned.
SavedByRedStickDetection(array, mask) ==
  [kind |-> "mask", pts |-> << >>, mask |-> mask]

\* Lines 25 and 11-14: from_array is given the mask; it either refuses it
\* (it is no N x 6 array of floats), and nothing is written, or takes it,
\* and what is written is made of the mask.
RedsSave ==
  /\ pc = "reds_save"
  /\ \/ /\ Fail("from_array: not an array of points")
        /\ red_out' = red_out
     \/ /\ red_out' = << SavedByRedStickDetection(ar, redMask) >>
        /\ pc' = "reds_done"
        /\ err' = err
  /\ UNCHANGED << cluster, inputs, files, stages, output, ar, reds_kind, redMask, i >>

\* ------------------------------------------------------------------------
\* scripts/registration.py: find_largest_cluster
\* ------------------------------------------------------------------------

\* Line 48: random_seed=0.
RandomSeed == 0

\* Line 51: the radius 0.7, the minimum fraction .15, the minimum size 250.
ClusterRadius == [num |-> 7, den |-> 10]

ClusterMinFraction == [num |-> 15, den |-> 100]

ClusterMinSize == 250

\* The clouds find_largest_cluster is given: none to MaxClusterPts points.
ClusterInputs == { SourceCloud(n) : n \in 0..MaxClusterPts }

\* The sample targets: -1 for none, or a number of points.
ClusterSamples == {-1} \cup (0..MaxClusterSample)

\* patty.registration.downsample_random(cloud, fraction, random_seed): a
\* cloud of points picked from the input, in the input's registration.
downsample_random(cloud, frac, random_seed) ==
  { [pts |-> p, offset |-> cloud.offset] : p \in SubSeqs(cloud.pts) }

\* patty.segmentation.dbscan.get_largest_dbscan_clusters: the largest
\* cluster of the cloud, a cluster having at least min_size points and at
\* least min_fraction of the cloud; no points where there is no cluster.
get_largest_dbscan_clusters(cloud, radius, min_fraction, min_size) ==
  { [pts |-> p, offset |-> cloud.offset] :
      p \in { q \in SubSeqs(cloud.pts) :
                \/ q = << >>
                \/ /\ Len(q) >= min_size
                   /\ Len(q) * min_fraction.den
                        >= Len(cloud.pts) * min_fraction.num } }

\* Line 43 without the test of the length.
NeedsDownsample_any_target(n, target) == target # -1

\* Line 43: sample != -1 and len(pointcloud) > sample.
NeedsDownsample(n, target) == target # -1 /\ n > target

\* Lines 43-49: the cloud the name pc is bound to.
ChooseClusterInput ==
  /\ pc = "flc_entry"
  /\ IF NeedsDownsample(Len(pointcloud.pts), sample)
     THEN LET f == [num |-> sample, den |-> Len(pointcloud.pts)]
          IN  /\ fraction' = << f >>
              /\ \E r \in downsample_random(pointcloud, f, RandomSeed) :
                   /\ downsampled' =
                        << [cloud |-> pointcloud, fraction |-> f,
                            random_seed |-> RandomSeed, result |-> r] >>
                   /\ pc_cloud' = << r >>
     ELSE /\ pc_cloud' = << pointcloud >>
          /\ UNCHANGED << fraction, downsampled >>
  /\ pc' = "flc_cluster"
  /\ UNCHANGED << clustered, inputs, err, files, stages, output, reds >>

\* Line 51: the clustering, and the return of its result.
LargestCluster ==
  /\ pc = "flc_cluster"
  /\ \E r \in get_largest_dbscan_clusters(pc_cloud[1], ClusterRadius,
                                          ClusterMinFraction, ClusterMinSize) :
       clustered' =
         << [cloud |-> pc_cloud[1], radius |-> ClusterRadius,
             min_fraction |-> ClusterMinFraction,
             min_size |-> ClusterMinSize, result |-> r] >>
  /\ pc' = "flc_done"
  /\ UNCHANGED << fraction, downsampled, pc_cloud, inputs, err, files,
                  stages, output, reds >>

Next ==
  \/ AssertSource
  \/ AssertDrivemap
  \/ AssertFootprint
  \/ LoadSource
  \/ LoadDrivemap
  \/ LoadFootprint
  \/ CopyRegistration
  \/ Trim
  \/ Cutout
  \/ StickScale
  \/ Align
  \/ ApplyTransform
  \/ Icp
  \/ Adopt
  \/ Save
  \/ RedsLoad
  \/ GetRedsAlloc
  \/ GetRedsLoop
  \/ GetRedsReturn
  \/ RedsSave

Spec == Init /\ [][Next]_vars

\* A call of find_largest_cluster(pointcloud, sample).
InitCluster ==
  /\ pc = "flc_entry"
  /\ pointcloud \in ClusterInputs
  /\ sample \in ClusterSamples
  /\ exists = [f \in FileNames |-> TRUE]
  /\ err = ""
  /\ loaded = {}
  /\ drivemap_in = NoCloud
  /\ footprint = << >>
  /\ local_pointcloud = "pointcloud"
  /\ drivemap = NoCloud
  /\ trimmed = FALSE
  /\ footprint_boundary = NoCloud
  /\ stick = << >>
  /\ allow_scaling = TRUE
  /\ transform = << >>
  /\ icp_result = << >>
  /\ reported = << >>
  /\ calls = << >>
  /\ output = << >>
  /\ ar = << >>
  /\ reds_kind = "none"
  /\ redMask = << >>
  /\ i = 1
  /\ red_out = << >>
  /\ fraction = << >>
  /\ downsampled = << >>
  /\ pc_cloud = << >>
  /\ clustered = << >>

NextCluster ==
  \/ ChooseClusterInput
  \/ LargestCluster

SpecCluster == InitCluster /\ [][NextCluster]_vars

\* ------------------------------------------------------------------------
\* Properties
\* ------------------------------------------------------------------------

\* The pipeline has returned to __main__.
Returned == pc \in {"save", "done"}

\* The points of the source cloud as loaded (no stage changes their number).
LoadedSourcePts == SourceCloud(Len(pointcloud.pts)).pts

\* The source cloud as it is handed to register_from_footprint, from the
\* loaded points and the stick scale estimate.
SourceAtAlign ==
  [pts |-> IF stick[1].confidence > ConfThreshold
           THEN [k \in DOMAIN LoadedSourcePts |->
                   VMul(stick[1].scale, LoadedSourcePts[k])]
           ELSE LoadedSourcePts,
   offset |-> drivemap_in.offset]

\* The positions in calls of the calls named op.
CallsOf(op) == {k \in DOMAIN calls : calls[k].op = op}

\* The applications of the stick scale: the scale calls without an origin.
StickScaleCalls == {k \in CallsOf("scale") : calls[k].origin = << >>}

\* C1: after registration_pipeline returned, the cloud object the caller
\* passed carries the pose of the ICP output cloud (its points and its
\* registration).
C1_CallerCarriesIcpPose ==
  Returned => pointcloud = icp_result[1].estimate

\* C2: once get_stick_scale returned: with confidence > 0.5 the stick scale
\* is applied to the source cloud exactly once and register_from_footprint
\* is called with allow_scaling false; with confidence <= 0.5 it is never
\* applied and allow_scaling is true; allow_rotation and allow_translation
\* are true in both cases.
C2_StickScaleDecision ==
  (stick # << >>) =>
    LET confident == stick[1].confidence > ConfThreshold
    IN  /\ Cardinality(StickScaleCalls) = (IF confident THEN 1 ELSE 0)
        /\ \A k \in StickScaleCalls : calls[k].k = stick[1].scale
        /\ pc = "align" => pointcloud = SourceAtAlign
        /\ \A k \in CallsOf("register_from_footprint") :
             /\ calls[k].flags.scaling = ~confident
             /\ calls[k].flags.rotation
             /\ calls[k].flags.translation
             /\ \A j \in StickScaleCalls : j < k

\* C2's case: a confident estimate was applied and the aligner was called.
C2_Witness ==
  /\ pc = "transform"
  /\ stick[1].confidence > ConfThreshold
  /\ Cardinality(StickScaleCalls) = 1
  /\ ~calls[Len(calls)].flags.scaling

\* C3: the transform register_from_footprint returned is applied as exactly
\* three calls, rotate about rot_center, scale about rot_center, translate,
\* in this order, after the alignment call and before icp.
C3_TransformOrder ==
  (pc \in {"icp", "adopt", "save", "done"}) =>
    LET T == transform[1]
        a == CHOOSE k \in CallsOf("register_from_footprint") : TRUE
    IN  /\ Cardinality(CallsOf("register_from_footprint")) = 1
        /\ Len(calls) >= a + 3
        /\ calls[a + 1].op = "rotate"
        /\ calls[a + 1].rot = T.rot /\ calls[a + 1].origin = <<T.center>>
        /\ calls[a + 2].op = "scale"
        /\ calls[a + 2].k = T.scale /\ calls[a + 2].origin = <<T.center>>
        /\ calls[a + 3].op = "translate"
        /\ calls[a + 3].vec = T.translation
        /\ CallsOf("rotate") = {a + 1}
        /\ CallsOf("scale") \ StickScaleCalls = {a + 2}
        /\ CallsOf("translate") = {a + 3}
        /\ \A k \in CallsOf("icp") : k > a + 3
        /\ pointcloud =
             Translate(Scale(Rotate(SourceAtAlign, T.rot, T.center),
                             T.scale, T.center), T.translation)

\* C3's case: a turning, scaling transform was applied and icp was invoked.
C3_Witness ==
  /\ pc = "adopt"
  /\ transform[1].rot = RotZ90
  /\ transform[1].scale = 2
  /\ calls[Len(calls)].op = "icp"

\* The absolute X,Y position of point k of a cloud, on the grid of the
\* scaled footprint.
AbsOnGrid(cloud, k) ==
  << Grid(footprint) * (cloud.pts[k][1] + cloud.offset[1]),
     Grid(footprint) * (cloud.pts[k][2] + cloud.offset[2]) >>

\* The points of the drivemap in the footprint scaled by outer / FactorDen
\* and not in the footprint scaled by inner / FactorDen.
Annulus(inner, outer) ==
  LET outer_polygon == scale_points(footprint, outer)
      inner_polygon == scale_points(footprint, inner)
  IN  [pts |-> SelectIdx(drivemap.pts,
                 [k \in DOMAIN drivemap.pts |->
                    /\ InPolygon(AbsOnGrid(drivemap, k), outer_polygon)
                    /\ ~InPolygon(AbsOnGrid(drivemap, k), inner_polygon)],
                 1),
       offset |-> drivemap.offset]

CutoutDone ==
  pc \in {"stick", "align", "transform", "icp", "adopt", "save", "done"}

\* C4 as stated: the edge cutout keeps exactly the drivemap points whose
\* absolute X,Y position is inside the footprint scaled by 1.5 and not
\* inside the footprint scaled by 1.0.
C4_AnnulusFromUnscaled ==
  CutoutDone => footprint_boundary = Annulus(FactorDen, PolygonWidth)

\* C4 amended: the edge cutout keeps exactly the drivemap points whose
\* absolute X,Y position is inside the footprint scaled by 1.5 and not
\* inside the footprint scaled by 1.05.
C4_AnnulusFromSlightlyLarge ==
  CutoutDone => footprint_boundary = Annulus(SlightlyLarge, PolygonWidth)

\* C4's case: the drivemap has a point between the footprint and the
\* footprint scaled by 1.05, which is dropped, and a point that is kept.
C4_Witness ==
  /\ pc = "stick"
  /\ footprint_boundary.pts # << >>
  /\ Annulus(FactorDen, SlightlyLarge).pts # << >>
  /\ drivemap.offset # Zero3

\* The sizes of the bounding box of the drivemap as it was loaded.
InSize == BoundingBox(drivemap_in.pts).size

\* The points of the loaded drivemap in its lowest TrimHeight units.
LowestSlice ==
  [pts |-> SelectIdx(drivemap_in.pts,
             [k \in DOMAIN drivemap_in.pts |->
                drivemap_in.pts[k][3] <
                  BoundingBox(drivemap_in.pts).min[3] + TrimHeight],
             1),
   offset |-> drivemap_in.offset]

TrimDone ==
  pc \in {"cutout", "stick", "align", "transform", "icp", "adopt", "save", "done"}

\* C5 as stated: the drivemap is trimmed only when its Z size exceeds its
\* X size and its Y size.
C5_TrimmedOnlyIfTallerThanBoth ==
  (TrimDone /\ trimmed /\ drivemap # drivemap_in) =>
    (InSize[3] > InSize[1] /\ InSize[3] > InSize[2])

\* C5 amended: the drivemap is trimmed exactly when its Z size exceeds its
\* X size or its Y size; trimmed, it is the points below min Z + 2 of the
\* loaded drivemap, else the loaded drivemap; that drivemap is what the edge
\* cutout and icp are given.
C5_TrimIfTallerThanEither ==
  /\ TrimDone =>
       /\ trimmed = (InSize[3] > InSize[1] \/ InSize[3] > InSize[2])
       /\ drivemap = (IF InSize[3] > InSize[1] \/ InSize[3] > InSize[2]
                      THEN LowestSlice ELSE drivemap_in)
  /\ CutoutDone =>
       footprint_boundary = Annulus(SlightlyLarge, PolygonWidth)
  /\ icp_result # << >> => icp_result[1].target = drivemap

\* C5's case: a drivemap taller than deep but not taller than wide lost
\* points to the trim, and icp ran on it.
C5_Witness ==
  /\ pc = "adopt"
  /\ trimmed
  /\ Len(drivemap.pts) < Len(drivemap_in.pts)
  /\ InSize[3] <= InSize[1]
  /\ icp_result[1].target = drivemap

\* getReds has returned.
RedsReturned == pc \in {"reds_save", "reds_returned", "reds_done"}

\* C6: for every point of the input, its mask entry is true exactly when
\* the hue of its colour is above 0.9 and its saturation above 0.5; points
\* of the same colour have the same entry, wherever they are.
C6_MaskPerPoint ==
  /\ (pc = "reds_loop" \/ RedsReturned) =>
       \A k \in 1..(IF RedsReturned THEN Len(ar) ELSE i - 1) :
         LET hsv == rgb_to_hsv(ar[k].rgb)
         IN  /\ redMask[k] \in {"true", "false"}
             /\ (redMask[k] = "true") <=>
                  (10 * hsv.h.num > 9 * hsv.h.den /\ 2 * hsv.s.num > hsv.s.den)
  /\ RedsReturned =>
       \A j, k \in 1..Len(ar) :
         ar[j].rgb = ar[k].rgb => redMask[j] = redMask[k]

\* C6's case: getReds returned a mask for a red point followed by one that
\* has the hue but not the saturation.
C6_Witness ==
  /\ pc = "reds_returned"
  /\ Len(ar) = 2
  /\ ar[2].rgb = <<200, 100, 110>>
  /\ redMask[1] = "true"
  /\ redMask[2] = "false"

\* C7: whatever converged and fitness are, the pipeline does not abort
\* after icp: both are reported, and the estimate (the source moved by the
\* ICP transform, with the source's registration) is adopted.
C7_NonConvergenceNotFatal ==
  (icp_result # << >>) =>
    LET r == icp_result[1]
    IN  /\ pc \in {"adopt", "save", "done"}
        /\ err = ""
        /\ reported = << [converged |-> r.converged, fitness |-> r.fitness] >>
        /\ Returned =>
             /\ local_pointcloud = "estimate"
             /\ r.estimate =
                  [pts |-> Translate(pointcloud, r.shift).pts,
                   offset |-> pointcloud.offset]

\* C7's case: icp did not converge and the pipeline returned.
C7_Witness ==
  /\ pc = "done"
  /\ ~icp_result[1].converged
  /\ ~reported[1].converged
  /\ local_pointcloud = "estimate"

\* A run of registration.py (not of redStickDetection.py).
IsRegistration == reds_kind = "none"

\* C8: with a missing input path the run gets no further than the asserts:
\* nothing is loaded, no stage runs, nothing is written; the output is
\* written only when all three paths exist and the pipeline returned.
C8_FailFast ==
  IsRegistration =>
    /\ (\E f \in FileNames : ~exists[f]) =>
         /\ pc \in {"assert_source", "assert_drivemap", "assert_footprint",
                    "error"}
         /\ loaded = {}
         /\ calls = << >>
         /\ stick = << >> /\ transform = << >> /\ icp_result = << >>
         /\ output = << >>
    /\ (pc = "error" /\ loaded = {}) =>
         \E f \in FileNames : ~exists[f] /\ err = f \o " does not exist"
    /\ output # << >> =>
         /\ \A f \in FileNames : exists[f]
         /\ loaded = FileNames
         /\ icp_result # << >>
         /\ pc = "done"
         /\ err = ""

\* C8's case: the footprint is missing; the run stopped with nothing loaded.
C8_Witness ==
  /\ pc = "error"
  /\ exists["source"] /\ exists["drivemap"] /\ ~exists["footprint"]
  /\ err = "footprint does not exist"
  /\ loaded = {}

\* C9: when redStickDetection ends (here: on an input with a red point),
\* outFile holds exactly the input points that getReds flags, unchanged, and
\* nothing else.
C9_SavesRedPoints ==
  (/\ pc = "reds_done" \/ (pc = "error" /\ reds_kind = "array")
   /\ \E k \in DOMAIN ar : IsRed(ar[k].rgb)) =>
    red_out =
      << [kind |-> "points",
          pts |-> SelectIdx(ar, [k \in DOMAIN ar |-> redMask[k] = "true"], 1),
          mask |-> << >>] >>

\* C10: run with -d <sample>, sample >= 1, on a source of more than sample
\* points, the source cloud the registration used has at most sample points.
C10_Downsampled ==
  (icp_result # << >> /\ sample >= 1 /\ Len(LoadedSourcePts) > sample) =>
    /\ Len(pointcloud.pts) <= sample
    /\ Len(icp_result[1].estimate.pts) <= sample

\* The stages of registration_pipeline, in the order of lines 93-138.
StageOrder ==
  << "copy_registration", "trim", "cutout", "stick", "align", "transform",
     "icp" >>

StageNames == { StageOrder[k] : k \in DOMAIN StageOrder }

\* The position of a stage in StageOrder.
StageRank(p) == CHOOSE k \in DOMAIN StageOrder : StageOrder[k] = p

\* The number of stages that have completed.
Completed ==
  IF pc \in StageNames THEN StageRank(pc) - 1
  ELSE IF pc \in {"adopt", "save", "done"} THEN Len(StageOrder)
  ELSE IF pc = "error" /\ err = "empty boundary" THEN StageRank("align") - 1
  ELSE 0

\* What the stages have produced is what the completed stages produce, and
\* nothing of a stage that has not completed.
StageOutputs ==
  /\ (pointcloud # NoCloud /\ pointcloud.offset = drivemap_in.offset)
       <=> (Completed >= StageRank("copy_registration"))
  /\ Completed < StageRank("trim") =>
       /\ ~trimmed
       /\ pc \in StageNames => drivemap = drivemap_in
  /\ footprint_boundary # NoCloud => Completed >= StageRank("cutout")
  /\ (stick # << >>) <=> (Completed >= StageRank("stick"))
  /\ Completed < StageRank("stick") => calls = << >>
  /\ Cardinality(CallsOf("register_from_footprint")) =
       (IF Completed >= StageRank("align") \/ err = "empty boundary"
        THEN 1 ELSE 0)
  /\ (transform # << >>) <=> (Completed >= StageRank("align"))
  /\ \A op \in {"rotate", "translate"} :
       Cardinality(CallsOf(op)) =
         (IF Completed >= StageRank("transform") THEN 1 ELSE 0)
  /\ Cardinality(CallsOf("icp")) =
       (IF Completed >= StageRank("icp") THEN 1 ELSE 0)
  /\ (icp_result # << >>) <=> (Completed >= StageRank("icp"))

\* One step of a run of registration.py, seen from registration_pipeline.
StageStep ==
  /\ pc \in StageNames =>
       \/ pc' = "error" /\ err' # ""
       \/ /\ StageRank(pc) < Len(StageOrder)
          /\ pc' = StageOrder[StageRank(pc) + 1]
       \/ /\ StageRank(pc) = Len(StageOrder)
          /\ pc' = "adopt"
  /\ pc' \in StageNames =>
       IF StageRank(pc') = 1 THEN pc = "load_footprint"
       ELSE pc = StageOrder[StageRank(pc') - 1]
  /\ pc # "error"
  /\ err' # "" => pc' = "error"
  /\ (pc \in StageNames /\ pc' = "error") =>
       /\ pointcloud' = pointcloud
       /\ drivemap' = drivemap
       /\ footprint_boundary' = footprint_boundary
       /\ stick' = stick
       /\ output' = << >>
  /\ Completed' >= Completed
  /\ StageOutputs'

\* C11: in every run of registration_pipeline the stages run at most once
\* each and in the order frame unification, drivemap trim, edge cutout,
\* stick-scale estimation, footprint alignment, transform application, icp;
\* a stage starts only when the one before it has completed, nothing a
\* stage did is undone, and after a stage failed no later stage runs.
C11_StagesInOrder == [][IsRegistration => StageStep]_vars

\* C11's case: alignment failed on a cloud the stick scale had been applied
\* to; the stages before it have run, none after it has.
C11_Witness ==
  /\ pc = "error"
  /\ err = "empty boundary"
  /\ Cardinality(StickScaleCalls) = 1
  /\ pointcloud = SourceAtAlign
  /\ transform = << >>
  /\ icp_result = << >>

\* C12: find_largest_cluster(pointcloud, sample) with a sample target
\* (sample # -1) hands to the clustering the input downsampled with the
\* ratio min(1, sample / len(pointcloud)) and the random seed 0, the ratio 1
\* being the input itself, with no call of downsample_random and no
\* division when len(pointcloud) <= sample; with sample = -1 it hands on
\* the input itself; the clustering is called with the radius 0.7, the
\* minimum fraction 0.15 and the minimum size 250.
C12_ClusterInput ==
  (pc = "flc_done") =>
    LET n == Len(pointcloud.pts)
    IN  /\ (sample = -1 \/ n <= sample) =>
             /\ fraction = << >>
             /\ downsampled = << >>
             /\ clustered[1].cloud = pointcloud
        /\ (sample # -1 /\ n > sample) =>
             /\ Len(downsampled) = 1
             /\ downsampled[1].cloud = pointcloud
             /\ downsampled[1].fraction = fraction[1]
             /\ fraction[1].num * n = sample * fraction[1].den
             /\ fraction[1].num < fraction[1].den
             /\ downsampled[1].random_seed = 0
             /\ clustered[1].cloud = downsampled[1].result
        /\ Len(clustered) = 1
        /\ 10 * clustered[1].radius.num = 7 * clustered[1].radius.den
        /\ 100 * clustered[1].min_fraction.num
             = 15 * clustered[1].min_fraction.den
        /\ clustered[1].min_size = 250

\* C12's case: a cloud larger than the sample target was downsampled and
\* the result clustered.
C12_Witness ==
  /\ pc = "flc_done"
  /\ sample = 2
  /\ Len(pointcloud.pts) = 3
  /\ fraction = << [num |-> 2, den |-> 3] >>
  /\ Len(clustered[1].cloud.pts) = 2

\* C13: the mask getReds returns has one entry per input point, its length
\* being len(pointcloud), and every entry was assigned by the loop, none
\* left uninitialised; for a point-cloud object and for the N x 6 array
\* redStickDetection passes.
C13_MaskLengthAndAssigned ==
  RedsReturned =>
    /\ Len(redMask) = Len(ar)
    /\ \A k \in DOMAIN redMask : redMask[k] # "uninit"

====
